---- MODULE Spec2Model ----
(***************************************************************************)
(* SMS-to-Cursor automation: the activity log and its dashboard requests,  *)
(* the classifier adapter and validator, the bridge failover router, the   *)
(* /sms webhook pipeline, the outbound summaries, the automation executor  *)
(* of the bridges and the bridge's response collector.                     *)
(*                                                                         *)
(* Texts are modelled as sequences of character positions (Text(n) is the  *)
(* text of length n whose i-th character is i), so that slices keep both   *)
(* their length and which characters they retain.                          *)
(***************************************************************************)
EXTENDS Integers, Sequences, FiniteSets, TLC

VARIABLES
    activity_logs,  \* src/src/app.py:27  the in-memory log buffer
    max_logs,       \* the value of the module global MAX_LOGS read by add_log
    nAppended,      \* number of add_log calls so far (stands for the timestamp)
    pc,             \* position of the /sms handler; "idle" between requests
    nCmds,          \* inbound commands delivered to /sms so far
    nFaults,        \* add_log calls that raised so far
    gemini_raw,     \* what the classifier call of the current command produced
    action_data,    \* the CursorAction returned by process_with_gemini
    probes,         \* health probes of the current command: <<[port, reply]>>
    posts,          \* execute requests of the current command: <<port>>
    post_reply,     \* what the last execute request of the command came back with
    bridge_url,     \* port of the selected bridge, NoPort before selection
    result,         \* return value of perform_cursor_action
    sends,          \* summaries handed to send_sms_response for the current command
    http_status,    \* status the /sms handler answered the transport with
    prev_bridge,    \* bridge the previous command posted to (NoPort if none)
    original_message, \* the message send_to_cursor passes to collect_response
    clipboard,      \* the clipboard content when get_clipboard_content reads it
    collect_call,   \* what failed during the collect_response call
    collected,      \* the return value of collect_response
    log_mark,       \* number of add_log calls before the current command arrived
    last_response,  \* body of the latest dashboard request, when it was GET /logs
    summary_call,   \* the summary function called and the lengths of its arguments
    summary_body,   \* length of the body handed to messages.create
    exec_pc,        \* per /inject request of a bridge: the step it is about to run
    exec_bridge,    \* per /inject request: the bridge that serves it
    exec_steps,     \* per /inject request: the steps run so far, in order
    exec_reply,     \* per /inject request: the reply of the bridge
    exec_window,    \* per /inject request: what activate_cursor found and chose
    exec_keys,      \* per /inject request: the keys it sent to the desktop, in order
    exec_clip,      \* per /inject request: whether it copied to and read the clipboard
    surface,        \* the latest keystrokes the desktop received from all requests, in order
    desktop,        \* the top-level windows, in the order EnumWindows reports them
    foreground,     \* the window that holds the keyboard focus (0: none of them)
    thr_pc,         \* per server thread: the statement of add_log or clear_logs it is at
    thr_op,         \* per server thread: the handler it runs
    thr_evict,      \* per server thread: the length of the buffer when it called pop(0), -1 before
    thr_seen,       \* per server thread: the number of entries its GET /logs returned, -1 before
    gave_up         \* per /inject request: the steps run when the router stopped waiting, -1 if it did not

logVars == <<activity_logs, max_logs, nAppended>>
cmdVars == <<pc, nCmds, log_mark, nFaults, gemini_raw, action_data, probes, posts, post_reply,
             bridge_url, result, sends, http_status, prev_bridge>>
collectVars == <<original_message, clipboard, collect_call, collected>>
dashVars == <<last_response>>
sumVars == <<summary_call, summary_body>>
execVars == <<exec_pc, exec_bridge, exec_steps, exec_reply, exec_window, exec_keys, exec_clip,
              surface, desktop, foreground>>
raceVars == <<thr_pc, thr_op, thr_evict, thr_seen>>
linkVars == <<gave_up>>
threadVars == <<raceVars, linkVars>>
restVars == <<dashVars, sumVars, execVars, threadVars>>
vars == <<logVars, cmdVars, collectVars, restVars>>

(***************************************************************************)
(* Program constants and bounds                                            *)
(***************************************************************************)
MAX_LOGS == 50

\* SpecLog also runs add_log with the small capacities 1..MaxSmallCapacity
MaxSmallCapacity == 3
\* SpecLog appends at most max_logs + MaxExtraAppends entries
MaxExtraAppends == 2
\* at most this many appended entries of SpecLog have a type other than
\* SMS_RECEIVED
MaxOtherTypes == 1
\* commands delivered to /sms in one run
MaxCmds == 2
\* add_log calls that raise in one run
MaxLogFaults == 1
\* lengths of the message and of the clipboard content given to
\* collect_response
MaxMessageLen == 31
MaxClipboardLen == 201
\* length of the texts the classifier and the bridges produce
MaxTextLen == 11
\* the texts given to the summary functions are up to this many hundreds
\* of characters long
MaxSummaryHundreds == 17
\* /inject requests handled by the bridges in one run
MaxRequests == 2

LogTypes == {"SMS_RECEIVED", "SMS_SENT", "ACTION_PERFORMED", "ERROR"}

(***************************************************************************)
(* Activity log                                                            *)
(***************************************************************************)
\* the entry built by add_log; seq stands for the timestamp, error_word
\* tells whether the message holds the word "error" in any letter case
log_entry(n, log_type, error_word) ==
    [seq |-> n, type |-> log_type, error_word |-> error_word]

\* add_log without the eviction
add_log_no_evict(logs, cap, entry) == Append(logs, entry)

\* add_log popping the last entry instead of the first
add_log_evict_newest(logs, cap, entry) ==
    LET appended == Append(logs, entry)
    IN  IF Len(appended) > cap
        THEN SubSeq(appended, 1, Len(appended) - 1)
        ELSE appended

\* activity_logs.append(log_entry); if len(activity_logs) > MAX_LOGS: pop(0)
add_log(logs, cap, entry) ==
    LET appended == Append(logs, entry)
    IN  IF Len(appended) > cap THEN Tail(appended) ELSE appended

\* len([log for log in activity_logs if ...]); flags tells for each entry
\* whether the condition holds
CountLogs(flags) == Cardinality({i \in 1..Len(flags) : flags[i]})

\* list(reversed(activity_logs))
reversed(s) == [i \in 1..Len(s) |-> s[Len(s) - i + 1]]

IsMessage(log) == log.type \in {"SMS_RECEIVED", "ACTION_PERFORMED"}
IsSuccessfulAction(log) == log.type = "ACTION_PERFORMED" /\ ~log.error_word
IsError(log) == log.type = "ERROR"

Messages(logs) == [i \in 1..Len(logs) |-> IsMessage(logs[i])]
SuccessfulActions(logs) == [i \in 1..Len(logs) |-> IsSuccessfulAction(logs[i])]
Errors(logs) == [i \in 1..Len(logs) |-> IsError(logs[i])]

LogsResponse(logs, total_messages, successful_actions, errors) ==
    [kind |-> "logs", logs |-> logs,
     stats |-> [total_messages |-> total_messages,
                successful_actions |-> successful_actions,
                errors |-> errors]]

\* no GET /logs body: the latest dashboard request was another one
NoResponse == [kind |-> "none", logs |-> <<>>,
               stats |-> [total_messages |-> 0, successful_actions |-> 0,
                          errors |-> 0]]

\* get_logs returning the buffer in insertion order
get_logs_not_reversed(logs) ==
    LogsResponse(logs, CountLogs(Messages(logs)),
                 CountLogs(SuccessfulActions(logs)), CountLogs(Errors(logs)))

\* get_logs counting every ACTION_PERFORMED entry as a successful action
get_logs_counts_all_actions(logs) ==
    LET actions == [i \in 1..Len(logs) |-> logs[i].type = "ACTION_PERFORMED"]
    IN  LogsResponse(reversed(logs), CountLogs(Messages(logs)),
                     CountLogs(actions), CountLogs(Errors(logs)))

\* the body of GET /logs
get_logs(logs) ==
    LogsResponse(reversed(logs), CountLogs(Messages(logs)),
                 CountLogs(SuccessfulActions(logs)), CountLogs(Errors(logs)))

\* clear_logs leaving the buffer empty, without the log entry
clear_logs_silent(cap, n) == <<>>

\* activity_logs = []; add_log('ACTION_PERFORMED', 'Logs cleared', ...)
clear_logs(cap, n) ==
    add_log(<<>>, cap, log_entry(n, "ACTION_PERFORMED", FALSE))

(***************************************************************************)
(* Texts                                                                   *)
(***************************************************************************)
Min(a, b) == IF a < b THEN a ELSE b

Text(n) == [i \in 1..n |-> i]

\* s[:k]
Prefix(s, k) == SubSeq(s, 1, Min(k, Len(s)))

\* s[-k:]
Suffix(s, k) == SubSeq(s, Len(s) - Min(k, Len(s)) + 1, Len(s))

(***************************************************************************)
(* Action schema (src/src/schemas.py)                                      *)
(***************************************************************************)
ActionType == {"create_file", "edit_file", "run_code", "search_code",
               "open_file", "execute_command", "error"}

\* a field of a JSON object or of a CursorAction: k is "absent" (key not
\* given), "null" (None) or "str"; s is the text when k = "str"
Absent == [k |-> "absent", s |-> <<>>]
Null == [k |-> "null", s |-> <<>>]
Str(s) == [k |-> "str", s |-> s]

\* CursorAction(**raw_data): action must be a member of ActionType,
\* description must be a str, command and file_path are Optional[str] = None
Validates(raw) ==
    /\ raw.action \in ActionType
    /\ raw.description.k = "str"

OrNone(field) == IF field.k = "absent" THEN Null ELSE field

CursorAction(raw) ==
    [action |-> raw.action,
     command |-> OrNone(raw.command),
     description |-> raw.description,
     file_path |-> OrNone(raw.file_path)]

\* action_data before process_with_gemini has returned
NoAction == [action |-> "unset", command |-> Null, description |-> Null,
             file_path |-> Null]

(***************************************************************************)
(* Classifier adapter and validator: process_with_gemini                   *)
(***************************************************************************)
\* a text of the fallback Actions, written from the inbound message
FallbackText == Str(Text(MaxTextLen))

\* tokens of a response text: code fences, prose, or one JSON value (obj is
\* the object when t = "object")
NoObj == [action |-> "absent", command |-> Absent, description |-> Absent,
          file_path |-> Absent]
Tok(t, obj) == [t |-> t, obj |-> obj]
FenceJson == Tok("fence_json", NoObj)
Fence == Tok("fence", NoObj)

\* Drop a leading json code fence, then a leading bare code fence, then a
\* trailing code fence.  The response text is a sequence of tokens.
strip_code_fence(tokens) ==
    LET a == IF tokens # <<>> /\ Head(tokens) = FenceJson
             THEN Tail(tokens) ELSE tokens
        b == IF a # <<>> /\ Head(a) = Fence THEN Tail(a) ELSE a
    IN  IF b # <<>> /\ b[Len(b)] = Fence
        THEN SubSeq(b, 1, Len(b) - 1) ELSE b

\* json.loads succeeds exactly on one JSON value with nothing around it
json_parses(tokens) ==
    Len(tokens) = 1 /\ tokens[1].t \in {"object", "array", "scalar"}

\* the handler that the try block of process_with_gemini ends in:
\* "return", or the except clause taken
gemini_branch(raw) ==
    IF raw.kind = "raise" THEN raw.exc
    ELSE LET tokens == strip_code_fence(raw.tokens)
         IN  IF ~json_parses(tokens) THEN "JSONDecodeError"
             ELSE IF tokens[1].t # "object" THEN "Exception"
             ELSE IF ~Validates(tokens[1].obj) THEN "ValidationError"
             ELSE "return"

\* the JSONDecodeError clause prints response_text, which is unbound when the
\* exception came from the classifier call itself
gemini_raises(raw) ==
    gemini_branch(raw) = "JSONDecodeError" /\ raw.kind = "raise"

\* process_with_gemini of src/app.py: every except clause builds an error
\* Action
root_process_with_gemini(raw) ==
    LET branch == gemini_branch(raw)
    IN  IF branch = "return"
        THEN CursorAction(strip_code_fence(raw.tokens)[1].obj)
        ELSE [action |-> "error", command |-> Null,
              description |-> FallbackText, file_path |-> Null]

process_with_gemini(raw) ==
    LET branch == gemini_branch(raw)
    IN  CASE branch = "return" ->
               CursorAction(strip_code_fence(raw.tokens)[1].obj)
          [] branch = "ValidationError" ->
               [action |-> "create_file", command |-> FallbackText,
                description |-> FallbackText,
                file_path |-> Str(Text(12))]
          [] branch = "JSONDecodeError" ->
               [action |-> "create_file", command |-> FallbackText,
                description |-> FallbackText,
                file_path |-> Str(Text(20))]
          [] OTHER ->
               [action |-> "error", command |-> Null,
                description |-> FallbackText, file_path |-> Null]

(***************************************************************************)
(* Failover router: perform_cursor_action                                  *)
(***************************************************************************)
\* the inject URLs, named by their host:port
NoPort == "none"
EnhancedPort == "localhost:5002"
SimplePort == "localhost:5001"
ResponseMinLen == 10

bridge_name(port) ==
    IF port = EnhancedPort THEN "Enhanced Bridge" ELSE "Simple Bridge"

\* replies of requests.get / requests.post: an HTTP response, or an exception
Http(status, body) == [t |-> "http", status |-> status, exc |-> "none", body |-> body]
Raised(exc) == [t |-> "exc", status |-> 0, exc |-> exc, body |-> <<>>]
NoReply == [t |-> "none", status |-> 0, exc |-> "none", body |-> <<>>]

Statuses == {200, 400, 500}
\* ConnectTimeout is both a ConnectionError and a Timeout
RequestExceptions == {"ConnectionError", "ConnectTimeout", "ReadTimeout", "Exception"}
ProbeExceptions == {"ConnectionError", "ReadTimeout"}

\* the routes the two bridges register; a GET of any other path is
\* answered 404 by the server
routes(port) ==
    IF port = EnhancedPort
    THEN {"/", "/inject", "/health"}
    ELSE {"/", "/inject", "/sms", "/test"}

\* the answer of a running bridge to the health probe of the router
health_reply(port) ==
    Http(IF "/health" \in routes(port) THEN 200 ELSE 404, <<>>)

ProbeReplies == {Http(st, <<>>) : st \in {200, 404, 503}}
                \cup {Raised(e) : e \in ProbeExceptions}

\* body of a 200 reply: not a JSON object, or an object with optional fields
\* success, cursor_response and error (error_check: the error text holds a
\* check mark)
NotJson == [json |-> FALSE, success |-> "absent", cursor_response |-> Absent,
            error_check |-> FALSE]
JsonBody(success, cursor_response, error_check) ==
    [json |-> TRUE, success |-> success, cursor_response |-> cursor_response,
     error_check |-> error_check]

CursorResponses ==
    {Absent, Null} \cup {Str(Text(n)) : n \in {0, ResponseMinLen, MaxTextLen}}

PostBodies ==
    {NotJson}
    \cup {JsonBody(su, cr, FALSE) : su \in {"absent", "true"}, cr \in CursorResponses}
    \cup {JsonBody("false", Absent, ec) : ec \in BOOLEAN}

PostReplies ==
    {Http(200, b) : b \in PostBodies}
    \cup {Http(st, <<>>) : st \in Statuses \ {200}}
    \cup {Raised(e) : e \in RequestExceptions}

\* the strings perform_cursor_action returns: msg names the template, text
\* is the cursor response quoted in it, check tells whether it holds a
\* check mark
Result(msg, port, text, check) ==
    [msg |-> msg, bridge |-> port, text |-> text, check |-> check]

NoResult == Result("unset", NoPort, <<>>, FALSE)

\* bridge_result.get("cursor_response", "No response captured")
NoResponseCaptured == Text(20)

health_ok(reply) == reply.t = "http" /\ reply.status = 200

\* the enhanced probe selecting the simple bridge's URL
after_enhanced_probe_picks_simple(reply) ==
    IF health_ok(reply)
    THEN [pc |-> "post", bridge_url |-> SimplePort]
    ELSE [pc |-> "probe_simple", bridge_url |-> NoPort]

\* lines 169-176: a 200 selects the enhanced bridge; anything else (a
\* non-200 raises ConnectionError, caught by the bare except) falls back
after_enhanced_probe(reply) ==
    IF health_ok(reply)
    THEN [pc |-> "post", bridge_url |-> EnhancedPort]
    ELSE [pc |-> "probe_simple", bridge_url |-> NoPort]

\* the simple probe without the return on a non-200 status
after_simple_probe_posts_anyway(reply) ==
    IF reply.t = "http"
    THEN [pc |-> "post", bridge_url |-> SimplePort, result |-> NoResult]
    ELSE [pc |-> "log_completed", bridge_url |-> NoPort,
          result |-> Result("No Cursor Bridge responding", NoPort, <<>>, FALSE)]

\* lines 177-186
after_simple_probe(reply) ==
    IF health_ok(reply)
    THEN [pc |-> "post", bridge_url |-> SimplePort, result |-> NoResult]
    ELSE IF reply.t = "http"
    THEN [pc |-> "log_completed", bridge_url |-> NoPort,
          result |-> Result("No Cursor Bridge available", NoPort, <<>>, FALSE)]
    ELSE [pc |-> "log_completed", bridge_url |-> NoPort,
          result |-> Result("No Cursor Bridge responding", NoPort, <<>>, FALSE)]

\* interpret_reply without the look at the success field
interpret_reply_ignores_success(reply, port) ==
    IF reply.t = "http"
    THEN IF reply.status = 200
         THEN IF ~reply.body.json
              THEN Result("Error connecting to Cursor bridge", NoPort, <<>>, FALSE)
              ELSE LET cr == reply.body.cursor_response
                       text == IF cr.k = "absent" THEN NoResponseCaptured ELSE cr.s
                   IN  IF cr.k # "null" /\ Len(text) > ResponseMinLen
                       THEN Result("CURSOR", port, text, TRUE)
                       ELSE Result("Message sent via", port, <<>>, TRUE)
         ELSE Result("failed (status)", port, <<>>, FALSE)
    ELSE IF reply.exc \in {"ConnectionError", "ConnectTimeout"}
    THEN Result("Cannot connect to Cursor Bridge", NoPort, <<>>, FALSE)
    ELSE IF reply.exc = "ReadTimeout"
    THEN Result("Timeout connecting to Cursor Bridge", NoPort, <<>>, FALSE)
    ELSE Result("Error connecting to Cursor bridge", NoPort, <<>>, FALSE)

\* lines 203-229: the result of the execute request
interpret_reply(reply, port) ==
    IF reply.t = "http"
    THEN IF reply.status = 200
         THEN IF ~reply.body.json
              THEN Result("Error connecting to Cursor bridge", NoPort, <<>>, FALSE)
              ELSE IF reply.body.success \in {"absent", "true"}
              THEN LET cr == reply.body.cursor_response
                       text == IF cr.k = "absent" THEN NoResponseCaptured ELSE cr.s
                   IN  IF cr.k # "null" /\ Len(text) > ResponseMinLen
                       THEN Result("CURSOR", port, text, TRUE)
                       ELSE Result("Message sent via", port, <<>>, TRUE)
              ELSE Result("bridge error", port, <<>>, reply.body.error_check)
         ELSE Result("failed (status)", port, <<>>, FALSE)
    ELSE IF reply.exc \in {"ConnectionError", "ConnectTimeout"}
    THEN Result("Cannot connect to Cursor Bridge", NoPort, <<>>, FALSE)
    ELSE IF reply.exc = "ReadTimeout"
    THEN Result("Timeout connecting to Cursor Bridge", NoPort, <<>>, FALSE)
    ELSE Result("Error connecting to Cursor bridge", NoPort, <<>>, FALSE)

(***************************************************************************)
(* Response collector (src/simple_ui_bridge.py)                            *)
(***************************************************************************)
MinClipboardLen == 20
ClipboardTail == 200
EchoLen == 30

\* the whitespace characters of a text are its zeros
IsBlank(c) == c = 0

RECURSIVE lstrip(_)
lstrip(s) == IF s # <<>> /\ IsBlank(Head(s)) THEN lstrip(Tail(s)) ELSE s

RECURSIVE rstrip(_)
rstrip(s) ==
    IF s # <<>> /\ IsBlank(s[Len(s)])
    THEN rstrip(SubSeq(s, 1, Len(s) - 1))
    ELSE s

\* str.strip()
strip(s) == rstrip(lstrip(s))

\* what Get-Clipboard prints: the content and a line end
powershell_stdout(content) == content \o <<0, 0>>

\* tk: root.clipboard_get() returned; ps: "raise", "nonzero" or "zero", the
\* outcome of the PowerShell fallback
get_clipboard_content(content, tk, ps) ==
    IF tk THEN content
    ELSE IF ps = "zero" THEN strip(powershell_stdout(content))
    ELSE <<>>

\* the strings collect_response returns: the clipboard tail, or a template
\* quoting the first characters of the message
Collected(kind, text) == [kind |-> kind, text |-> text]
NoCollected == Collected("unset", <<>>)
NoCall == [hotkeys_raise |-> FALSE, tk |-> FALSE, ps |-> "none"]

\* len() of a returned string
template_len(kind) ==
    CASE kind = "clipboard" -> 0
      [] kind = "Cursor processed" -> 25
      [] kind = "Message sent to Cursor" -> 31
      [] OTHER -> 0

collected_len(c) == template_len(c.kind) + Len(c.text)

\* collect_response without the length test on the clipboard text
collect_response_returns_clipboard(message, content, hotkeys_raise, tk, ps) ==
    IF hotkeys_raise
    THEN Collected("Message sent to Cursor", Prefix(message, EchoLen))
    ELSE Collected("clipboard",
                   Suffix(get_clipboard_content(content, tk, ps), ClipboardTail))

\* collect_response taking a text of exactly the minimum length as a reply
collect_response_min_inclusive(message, content, hotkeys_raise, tk, ps) ==
    IF hotkeys_raise
    THEN Collected("Message sent to Cursor", Prefix(message, EchoLen))
    ELSE LET clipboard_text == get_clipboard_content(content, tk, ps)
         IN  IF clipboard_text # <<>> /\ Len(clipboard_text) >= MinClipboardLen
             THEN Collected("clipboard", Suffix(clipboard_text, ClipboardTail))
             ELSE Collected("Cursor processed", Prefix(message, EchoLen))

collect_response(message, content, hotkeys_raise, tk, ps) ==
    IF hotkeys_raise
    THEN Collected("Message sent to Cursor", Prefix(message, EchoLen))
    ELSE LET clipboard_text == get_clipboard_content(content, tk, ps)
         IN  IF clipboard_text # <<>> /\ Len(clipboard_text) > MinClipboardLen
             THEN Collected("clipboard", Suffix(clipboard_text, ClipboardTail))
             ELSE Collected("Cursor processed", Prefix(message, EchoLen))

\* one call of collect_response; hotkeys_raise: pyautogui or the logger
\* raised inside the try block
CollectResponse(hotkeys_raise, tk, ps) ==
    /\ collected = NoCollected
    /\ collect_call' = [hotkeys_raise |-> hotkeys_raise, tk |-> tk, ps |-> ps]
    /\ collected' = collect_response(original_message, clipboard,
                                     hotkeys_raise, tk, ps)
    /\ UNCHANGED <<logVars, cmdVars, restVars, original_message, clipboard>>

(***************************************************************************)
(* Automation executor: send_to_cursor of src/simple_ui_bridge.py (port    *)
(* 5002) and send_to_cursor_chat of src/src/simple_cursor_bridge.py (port  *)
(* 5001), each behind its /inject endpoint                                 *)
(***************************************************************************)
Requests == 1..MaxRequests

\* how many server threads run add_log or clear_logs at once
MaxThreads == 3
Threads == 1..MaxThreads

\* how many of the latest keystrokes of the desktop the model keeps
SurfaceWindow == 4

StepOrder == <<"Locate", "Focus", "OpenInputSurface", "Clear", "Inject",
               "Submit", "AwaitReply", "Collect">>

\* the steps in the order the function of the bridge runs them:
\* send_to_cursor_chat neither clears the input nor presses Enter nor
\* waits nor collects
steps_of(port) ==
    IF port = EnhancedPort
    THEN StepOrder
    ELSE <<"Locate", "Focus", "OpenInputSurface", "Inject">>

StepIndex(steps, step) == CHOOSE i \in 1..Len(steps) : steps[i] = step

\* send_to_cursor pressing Enter before it types the message
next_step_submits_first(port, step) ==
    IF port = EnhancedPort /\ step = "Clear" THEN "Submit"
    ELSE IF port = EnhancedPort /\ step = "Submit" THEN "Inject"
    ELSE IF port = EnhancedPort /\ step = "Inject" THEN "AwaitReply"
    ELSE LET steps == steps_of(port)
             i == StepIndex(steps, step)
         IN  IF i = Len(steps) THEN "return" ELSE steps[i + 1]

\* the step that follows step when step succeeded, "return" after the last
next_step(port, step) ==
    LET steps == steps_of(port)
        i == StepIndex(steps, step)
    IN  IF i = Len(steps) THEN "return" ELSE steps[i + 1]

\* the JSON reply of /inject and its status
ExecReply(status, success, error, cursor_response) ==
    [status |-> status, success |-> success, error |-> error,
     cursor_response |-> cursor_response]
NoExecReply == ExecReply(0, FALSE, "none", NoCollected)

\* /inject calling the executor without the look at the message
InjectMessage_skips_check(r, port, has_message) ==
    /\ exec_pc[r] = "idle"
    /\ exec_bridge[r] = NoPort
    /\ exec_bridge' = [exec_bridge EXCEPT ![r] = port]
    /\ exec_pc' = [exec_pc EXCEPT ![r] = "Locate"]
    /\ UNCHANGED <<logVars, cmdVars, collectVars, threadVars, dashVars, sumVars, exec_steps,
                   exec_reply, exec_window, exec_keys, exec_clip, surface, desktop,
                   foreground>>

\* inject_message: a request without message is answered 400, any other
\* one calls the executor
InjectMessage(r, port, has_message) ==
    /\ exec_pc[r] = "idle"
    /\ exec_bridge[r] = NoPort
    /\ exec_bridge' = [exec_bridge EXCEPT ![r] = port]
    /\ IF has_message
       THEN /\ exec_pc' = [exec_pc EXCEPT ![r] = "Locate"]
            /\ UNCHANGED exec_reply
       ELSE /\ exec_pc' = [exec_pc EXCEPT ![r] = "done"]
            /\ exec_reply' = [exec_reply EXCEPT ![r] =
                  ExecReply(400, FALSE, "No message provided", NoCollected)]
    /\ UNCHANGED <<logVars, cmdVars, collectVars, threadVars, dashVars, sumVars, exec_steps,
                   exec_window, exec_keys, exec_clip, surface, desktop,
                   foreground>>

\* the keys a step sends to the desktop when it succeeds
keys_of(port, step) ==
    IF step = "OpenInputSurface"
    THEN IF port = EnhancedPort THEN <<"ctrl+l">> ELSE <<"ctrl+shift+l", "ctrl+l">>
    ELSE IF step = "Clear" THEN <<"ctrl+a", "delete">>
    ELSE IF step = "Inject" THEN <<"typewrite">>
    ELSE IF step = "Submit" THEN <<"enter">>
    ELSE IF step = "Collect" THEN <<"ctrl+a", "ctrl+c">>
    ELSE <<>>

\* a key of request r, received by the window that held the focus
Keystroke(r, step, key, target) ==
    [r |-> r, step |-> step, key |-> key, target |-> target]

\* the last SurfaceWindow keystrokes of a sequence
latest(keystrokes) ==
    IF Len(keystrokes) <= SurfaceWindow
    THEN keystrokes
    ELSE SubSeq(keystrokes, Len(keystrokes) - SurfaceWindow + 1, Len(keystrokes))

\* what the desktop has received once request r sent keys after the
\* keystrokes it held already
emit(keystrokes, r, step, keys, target) ==
    keystrokes \o [i \in 1..Len(keys) |-> Keystroke(r, step, keys[i], target)]

\* send_to_cursor pressing the chat hotkey before it looks at the result
\* of activate_cursor
RunStep_types_before_check(r, step, ok, typed, clip, error, cursor_response) ==
    /\ exec_pc[r] = step
    /\ step # "Locate" => UNCHANGED exec_window
    /\ exec_steps' = [exec_steps EXCEPT ![r] = Append(@, step)]
    /\ exec_keys' = [exec_keys EXCEPT ![r] =
                        IF typed \/ step = "Locate" THEN @ \o <<"ctrl+l">> ELSE @]
    /\ surface' = IF typed
                  THEN latest(emit(surface, r, step, keys_of(exec_bridge[r], step),
                                   foreground))
                  ELSE surface
    /\ foreground' = IF step = "Focus" /\ ok
                     THEN exec_window[r].chosen
                     ELSE foreground
    /\ exec_clip' = [exec_clip EXCEPT ![r] = @ \/ clip]
    /\ IF ~ok
       THEN /\ exec_pc' = [exec_pc EXCEPT ![r] = "done"]
            /\ exec_reply' = [exec_reply EXCEPT ![r] =
                  ExecReply(500, FALSE, error, NoCollected)]
       ELSE IF next_step(exec_bridge[r], step) = "return"
       THEN /\ exec_pc' = [exec_pc EXCEPT ![r] = "done"]
            /\ exec_reply' = [exec_reply EXCEPT ![r] =
                  ExecReply(200, TRUE, "none", cursor_response)]
       ELSE /\ exec_pc' = [exec_pc EXCEPT ![r] = next_step(exec_bridge[r], step)]
            /\ UNCHANGED exec_reply
    /\ UNCHANGED <<logVars, cmdVars, collectVars, threadVars, dashVars, sumVars, exec_bridge,
                   desktop>>

\* send_to_cursor holding a lock from Locate until it returns
RunStep_under_lock(r, step, ok, typed, clip, error, cursor_response) ==
    /\ exec_pc[r] = step
    /\ \A q \in Requests \ {r} : exec_steps[q] = <<>> \/ exec_pc[q] = "done"
    /\ step # "Locate" => UNCHANGED exec_window
    /\ exec_steps' = [exec_steps EXCEPT ![r] = Append(@, step)]
    /\ exec_keys' = [exec_keys EXCEPT ![r] =
                        IF typed THEN @ \o keys_of(exec_bridge[r], step) ELSE @]
    /\ surface' = IF typed
                  THEN latest(emit(surface, r, step, keys_of(exec_bridge[r], step),
                                   foreground))
                  ELSE surface
    /\ foreground' = IF step = "Focus" /\ ok
                     THEN exec_window[r].chosen
                     ELSE foreground
    /\ exec_clip' = [exec_clip EXCEPT ![r] = @ \/ clip]
    /\ IF ~ok
       THEN /\ exec_pc' = [exec_pc EXCEPT ![r] = "done"]
            /\ exec_reply' = [exec_reply EXCEPT ![r] =
                  ExecReply(500, FALSE, error, NoCollected)]
       ELSE IF next_step(exec_bridge[r], step) = "return"
       THEN /\ exec_pc' = [exec_pc EXCEPT ![r] = "done"]
            /\ exec_reply' = [exec_reply EXCEPT ![r] =
                  ExecReply(200, TRUE, "none", cursor_response)]
       ELSE /\ exec_pc' = [exec_pc EXCEPT ![r] = next_step(exec_bridge[r], step)]
            /\ UNCHANGED exec_reply
    /\ UNCHANGED <<logVars, cmdVars, collectVars, threadVars, dashVars, sumVars, exec_bridge,
                   desktop>>

\* one step of the executor.  ok: the step did what it is for; otherwise
\* the function returns the failure and /inject answers 500.  After the
\* last step the function returns success and /inject answers 200.
\* typed: the step sent its keys; clip: it used the clipboard.
RunStep(r, step, ok, typed, clip, error, cursor_response) ==
    /\ exec_pc[r] = step
    /\ step # "Locate" => UNCHANGED exec_window
    /\ exec_steps' = [exec_steps EXCEPT ![r] = Append(@, step)]
    /\ exec_keys' = [exec_keys EXCEPT ![r] =
                        IF typed THEN @ \o keys_of(exec_bridge[r], step) ELSE @]
    /\ surface' = IF typed
                  THEN latest(emit(surface, r, step, keys_of(exec_bridge[r], step),
                                   foreground))
                  ELSE surface
    /\ foreground' = IF step = "Focus" /\ ok
                     THEN exec_window[r].chosen
                     ELSE foreground
    /\ exec_clip' = [exec_clip EXCEPT ![r] = @ \/ clip]
    /\ IF ~ok
       THEN /\ exec_pc' = [exec_pc EXCEPT ![r] = "done"]
            /\ exec_reply' = [exec_reply EXCEPT ![r] =
                  ExecReply(500, FALSE, error, NoCollected)]
       ELSE IF next_step(exec_bridge[r], step) = "return"
       THEN /\ exec_pc' = [exec_pc EXCEPT ![r] = "done"]
            /\ exec_reply' = [exec_reply EXCEPT ![r] =
                  ExecReply(200, TRUE, "none", cursor_response)]
       ELSE /\ exec_pc' = [exec_pc EXCEPT ![r] = next_step(exec_bridge[r], step)]
            /\ UNCHANGED exec_reply
    /\ UNCHANGED <<logVars, cmdVars, collectVars, threadVars, dashVars, sumVars, exec_bridge,
                   desktop>>

\* the reason send_to_cursor and send_to_cursor_chat return when the
\* activation of the window failed
activation_error(port) ==
    IF port = EnhancedPort
    THEN "Cursor window not found"
    ELSE "Could not find or activate Cursor window"

\* the desktops the executor is run on: the top-level windows in the
\* order EnumWindows reports them, each by what its title holds; "hidden
\* cursor" is a window that is not visible.  The handle of a window is its
\* place in the enumeration.
Desktops ==
    {<<"other">>, <<"other", "code">>, <<"hidden cursor", "code", "cursor">>}

\* the callback of EnumWindows: a visible window whose lower-cased title
\* holds 'cursor', or also 'code' for the bridge on port 5001
title_matches(port, title) ==
    \/ title = "cursor"
    \/ port = SimplePort /\ title = "code"

\* the handles appended to cursor_windows, in order
cursor_windows(port, windows) ==
    SelectSeq([i \in 1..Len(windows) |-> i],
              LAMBDA i : title_matches(port, windows[i]))

\* activate_cursor taking the last of the windows found
first_window_takes_last(port, windows) ==
    LET found == cursor_windows(port, windows)
    IN  IF found = <<>> THEN 0 ELSE found[Len(found)]

\* cursor_windows[0], 0 when the list is empty
first_window(port, windows) ==
    LET found == cursor_windows(port, windows)
    IN  IF found = <<>> THEN 0 ELSE found[1]

\* what activate_cursor learnt: whether EnumWindows returned, and the
\* handle that was chosen (0: none)
ExecWindow(enumerated, chosen) == [enumerated |-> enumerated, chosen |-> chosen]
NoWindow == ExecWindow(FALSE, 0)

\* activate_cursor: EnumWindows over the top-level windows.  raises: the
\* import or the enumeration raised (caught, activate_cursor returns
\* False); otherwise the first match is chosen.
Locate(r, raises) ==
    /\ RunStep(r, "Locate",
               ~raises /\ first_window(exec_bridge[r], desktop) # 0, FALSE, FALSE,
               activation_error(exec_bridge[r]), NoCollected)
    /\ exec_window' = [exec_window EXCEPT ![r] =
                          IF raises THEN NoWindow
                          ELSE ExecWindow(TRUE, first_window(exec_bridge[r], desktop))]

\* activate_cursor: ShowWindow, SetForegroundWindow and the settle delay
Focus(r, ok) ==
    RunStep(r, "Focus", ok, FALSE, FALSE, activation_error(exec_bridge[r]),
            NoCollected)

\* pyautogui.hotkey('ctrl', 'l') and the settle delay
OpenInputSurface(r, ok) ==
    RunStep(r, "OpenInputSurface", ok, ok, FALSE, "UI automation error", NoCollected)

\* select all, delete
Clear(r, ok) ==
    RunStep(r, "Clear", ok, ok, FALSE, "UI automation error", NoCollected)

\* pyautogui.typewrite(message, interval=0.02)
Inject(r, ok) ==
    RunStep(r, "Inject", ok, ok, FALSE, "UI automation error", NoCollected)

\* pyautogui.press('enter')
Submit(r, ok) ==
    RunStep(r, "Submit", ok, ok, FALSE, "UI automation error", NoCollected)

\* a wait for the reply that never ends
AwaitReply_blocks(r) ==
    /\ FALSE
    /\ RunStep(r, "AwaitReply", TRUE, FALSE, FALSE, "none", NoCollected)

\* time.sleep(8)
AwaitReply(r) ==
    RunStep(r, "AwaitReply", TRUE, FALSE, FALSE, "none", NoCollected)

\* collect_response without its except clause: the exception of the
\* hotkeys reaches the except clause of send_to_cursor
Collect_propagates_failure(r, hotkeys_raise, tk, ps) ==
    RunStep(r, "Collect", ~hotkeys_raise, ~hotkeys_raise, ~hotkeys_raise,
            "UI automation error",
            collect_response(original_message, clipboard, hotkeys_raise, tk, ps))

\* self.collect_response(message), which returns a text in every case
Collect(r, hotkeys_raise, tk, ps) ==
    RunStep(r, "Collect", TRUE, ~hotkeys_raise, ~hotkeys_raise, "none",
            collect_response(original_message, clipboard, hotkeys_raise, tk, ps))

\* the thread that serves request r runs the next step of send_to_cursor;
\* the bridges create no lock, so the step waits for no other request
ExecStep(r) ==
    \/ \E raises \in BOOLEAN : Locate(r, raises)
    \/ \E ok \in BOOLEAN : Focus(r, ok)
    \/ \E ok \in BOOLEAN : OpenInputSurface(r, ok)
    \/ \E ok \in BOOLEAN : Clear(r, ok)
    \/ \E ok \in BOOLEAN : Inject(r, ok)
    \/ \E ok \in BOOLEAN : Submit(r, ok)
    \/ AwaitReply(r)
    \/ \E hotkeys_raise \in BOOLEAN, tk \in BOOLEAN,
          ps \in {"raise", "nonzero", "zero"} :
            Collect(r, hotkeys_raise, tk, ps)

NextExec ==
    \E r \in Requests :
        \/ \E port \in {EnhancedPort, SimplePort}, has_message \in BOOLEAN :
              InjectMessage(r, port, has_message)
        \/ ExecStep(r)

(***************************************************************************)
(* Outbound summaries.  The texts are given by their lengths.              *)
(***************************************************************************)
\* the size limit of the transport (an SMS body)
SmsLimit == 1600
\* src/fixed_sms_mcp_bridge.py: the length above which a body is truncated
TruncateAbove == 1500
\* src/fixed_sms_mcp_bridge.py:342: the budget the results are cut to
ResultsBudget == 1400
ResultsReserve == 50
\* incoming_msg[:30] and result[:50] of the webhook summaries
MsgEcho == 30
ResultEcho == 50

Max(a, b) == IF a > b THEN a ELSE b

\* len(s[:k]) for a text of length n; a negative k counts from the end
slice_len(n, k) == IF k >= 0 THEN Min(n, k) ELSE Max(0, n + k)

\* send_sms_response of src/fixed_sms_mcp_bridge.py: message[:1500] and the
\* 15 characters "... [truncated]" when the message is longer than 1500
send_sms_response(message) ==
    IF message > TruncateAbove
    THEN slice_len(message, TruncateAbove) + 15
    ELSE message

\* send_completion_summary: header (43 + request), the optional action
\* line (10 + actions), the results block and the footer (35 + results);
\* above 1500 it is rebuilt from a header of 51 + request characters, the
\* cut results, "...[more]" (9) and the short footer (19)
send_completion_summary(original_request, results, actions_performed) ==
    LET summary == 43 + original_request
                   + (IF actions_performed > 0 THEN 10 + actions_performed ELSE 0)
                   + 35 + results
        header == 51 + original_request
        max_results_length == ResultsBudget - header - ResultsReserve
    IN  IF summary > TruncateAbove
        THEN header + slice_len(results, max_results_length) + 9 + 19
        ELSE summary

\* the summary composed by sms_webhook (src/src/app.py:686-704): 86 fixed
\* characters on success, 62 on failure, the first 30 of the message, the
\* whole description and, on failure, the first 50 of the result
webhook_summary(incoming_msg, description, result_text, check) ==
    IF check
    THEN 86 + slice_len(incoming_msg, MsgEcho) + description
    ELSE 62 + slice_len(incoming_msg, MsgEcho) + description
         + slice_len(result_text, ResultEcho)

\* the error summary of the except clause (src/src/app.py:720-725)
error_summary(incoming_msg, e) ==
    58 + slice_len(incoming_msg, MsgEcho) + slice_len(e, ResultEcho)

\* send_sms_response of src/src/app.py hands the message over as it is
app_send_sms_response(message) == message

SummaryCall(fn, a, b, c) == [fn |-> fn, a |-> a, b |-> b, c |-> c]
NoSummaryCall == SummaryCall("none", 0, 0, 0)
Body(sent, len) == [sent |-> sent, len |-> len]
NoBody == Body(FALSE, 0)

\* lengths of the texts given to the summary functions
SummaryLens ==
    {0, 1, MsgEcho, MsgEcho + 1, ResultEcho + 1}
    \cup {100 * h : h \in 1..MaxSummaryHundreds}

\* the MCP tool send_sms_response
SendSmsResponse(message) ==
    /\ summary_call = NoSummaryCall
    /\ summary_call' = SummaryCall("send_sms_response", message, 0, 0)
    /\ summary_body' = Body(TRUE, send_sms_response(message))
    /\ UNCHANGED <<logVars, cmdVars, collectVars, threadVars, dashVars, execVars>>

\* the MCP tool send_completion_summary
SendCompletionSummary(original_request, results, actions_performed) ==
    /\ summary_call = NoSummaryCall
    /\ summary_call' = SummaryCall("send_completion_summary", original_request,
                                   results, actions_performed)
    /\ summary_body' =
          Body(TRUE, send_completion_summary(original_request, results,
                                             actions_performed))
    /\ UNCHANGED <<logVars, cmdVars, collectVars, threadVars, dashVars, execVars>>

\* the summary of sms_webhook handed to send_sms_response
SendWebhookSummary(incoming_msg, description, result_text, check) ==
    /\ summary_call = NoSummaryCall
    /\ summary_call' = SummaryCall(IF check THEN "webhook_success"
                                   ELSE "webhook_failed",
                                   incoming_msg, description, result_text)
    /\ summary_body' =
          Body(TRUE, app_send_sms_response(
                         webhook_summary(incoming_msg, description, result_text, check)))
    /\ UNCHANGED <<logVars, cmdVars, collectVars, threadVars, dashVars, execVars>>

\* the error summary of sms_webhook handed to send_sms_response
SendWebhookErrorSummary(incoming_msg, e) ==
    /\ summary_call = NoSummaryCall
    /\ summary_call' = SummaryCall("webhook_error", incoming_msg, e, 0)
    /\ summary_body' =
          Body(TRUE, app_send_sms_response(error_summary(incoming_msg, e)))
    /\ UNCHANGED <<logVars, cmdVars, collectVars, threadVars, dashVars, execVars>>

NextSummary ==
    \/ \E message \in SummaryLens : SendSmsResponse(message)
    \/ \E original_request \in SummaryLens, results \in SummaryLens,
          actions_performed \in {0, 100} :
            SendCompletionSummary(original_request, results, actions_performed)
    \/ \E incoming_msg \in {1, MsgEcho + 1}, description \in SummaryLens,
          result_text \in {MsgEcho, ResultEcho + 1}, check \in BOOLEAN :
            SendWebhookSummary(incoming_msg, description, result_text, check)
    \/ \E incoming_msg \in SummaryLens, e \in SummaryLens :
            SendWebhookErrorSummary(incoming_msg, e)

(***************************************************************************)
(* Inputs of the pipeline                                                  *)
(***************************************************************************)
\* the kinds a classifier object may carry: members of ActionType, a kind
\* outside the enumeration, or no action key
ClassifierKinds == ActionType \cup {"delete_file", "absent"}

JsonObjects ==
    [action : ClassifierKinds,
     command : {Absent, Str(Text(MaxTextLen))},
     description : {Absent, Str(<<>>), Str(Text(MaxTextLen))},
     file_path : {Absent, Str(<<>>), Str(Text(MaxTextLen))}]

JsonValues ==
    {Tok("object", o) : o \in JsonObjects}
    \cup {Tok("array", NoObj), Tok("scalar", NoObj)}

Bodies == JsonValues \cup {Tok("prose", NoObj)}

TextResponse(tokens) == [kind |-> "text", exc |-> "none", tokens |-> tokens]
RaiseResponse(exc) == [kind |-> "raise", exc |-> exc, tokens |-> <<>>]

\* every outcome of the classifier call: an exception of one of the classes
\* the except clauses tell apart, or a text, bare or fenced
AllResponses ==
    {RaiseResponse(e) : e \in {"ValidationError", "JSONDecodeError", "Exception"}}
    \cup {TextResponse(<<b>>) : b \in Bodies}
    \cup {TextResponse(<<FenceJson, b, Fence>>) : b \in Bodies}
    \cup {TextResponse(<<Fence, b, Fence>>) : b \in Bodies}

Obj(action, command, description, file_path) ==
    Tok("object", [action |-> action, command |-> command,
                   description |-> description, file_path |-> file_path])

\* the classifier outcomes the whole pipeline is run on
PipelineResponses ==
    {RaiseResponse("JSONDecodeError"), RaiseResponse("Exception"),
     TextResponse(<<Tok("prose", NoObj)>>),
     TextResponse(<<FenceJson,
                    Obj("create_file", Str(Text(MaxTextLen)),
                        Str(Text(MaxTextLen)), Str(Text(MaxTextLen))),
                    Fence>>),
     TextResponse(<<Obj("open_file", Absent, Str(Text(MaxTextLen)), Absent)>>),
     TextResponse(<<Obj("error", Str(Text(MaxTextLen)), Str(<<>>), Absent)>>)}

NoRaw == [kind |-> "none", exc |-> "none", tokens |-> <<>>]

(***************************************************************************)
(* The /sms webhook: sms_webhook (src/src/app.py)                          *)
(***************************************************************************)
\* whether the description of the Action built from raw holds the word
\* "error": the Action of the last except clause is described as "Error
\* processing with Gemini: ..."; the other descriptions are texts of the
\* classifier or of the message, which hold no such word here
mentions_error(raw) ==
    gemini_branch(raw) \notin {"return", "ValidationError", "JSONDecodeError"}

\* add_log as a step of the handler.  fault: the call raises; the only
\* statement of add_log that can is the final print, after the append and
\* the eviction.
LogStep(log_type, error_word, fault) ==
    /\ fault => nFaults < MaxLogFaults
    /\ activity_logs' = add_log(activity_logs, max_logs,
                                log_entry(nAppended + 1, log_type, error_word))
    /\ nAppended' = nAppended + 1
    /\ nFaults' = IF fault THEN nFaults + 1 ELSE nFaults
    /\ UNCHANGED max_logs

\* lines 667-671: a command arrives; add_log runs before the try block, so
\* an exception in it leaves the handler (Flask answers 500)
Receive(fault) ==
    /\ pc = "idle"
    /\ nCmds < MaxCmds
    /\ nCmds' = nCmds + 1
    /\ log_mark' = nAppended
    /\ LogStep("SMS_RECEIVED", FALSE, fault)
    /\ pc' = IF fault THEN "idle" ELSE "classify"
    /\ http_status' = IF fault THEN 500 ELSE 0
    /\ prev_bridge' = IF posts # <<>> THEN posts[Len(posts)] ELSE NoPort
    /\ gemini_raw' = NoRaw
    /\ action_data' = NoAction
    /\ probes' = <<>>
    /\ posts' = <<>>
    /\ post_reply' = NoReply
    /\ bridge_url' = NoPort
    /\ result' = NoResult
    /\ sends' = <<>>
    /\ UNCHANGED <<collectVars, restVars>>

\* line 675: process_with_gemini(incoming_msg)
Classify(raw) ==
    /\ pc = "classify"
    /\ gemini_raw' = raw
    /\ IF gemini_raises(raw)
       THEN pc' = "except" /\ action_data' = NoAction
       ELSE pc' = "log_processed" /\ action_data' = process_with_gemini(raw)
    /\ UNCHANGED <<collectVars, restVars, logVars, nCmds, log_mark, nFaults, probes, posts, post_reply, bridge_url, result,
                   sends, http_status, prev_bridge>>

\* lines 676-678
LogProcessed(fault) ==
    /\ pc = "log_processed"
    /\ LogStep("ACTION_PERFORMED", mentions_error(gemini_raw), fault)
    /\ pc' = IF fault THEN "except" ELSE "probe_enhanced"
    /\ UNCHANGED <<collectVars, restVars, nCmds, log_mark, gemini_raw, action_data, probes, posts, post_reply, bridge_url, result,
                   sends, http_status, prev_bridge>>

\* perform_cursor_action going back to the bridge of the previous command
\* without a probe
ProbeEnhanced_cached(reply) ==
    /\ pc = "probe_enhanced"
    /\ IF prev_bridge # NoPort
       THEN /\ pc' = "post"
            /\ bridge_url' = prev_bridge
            /\ UNCHANGED probes
       ELSE /\ probes' = Append(probes, [port |-> EnhancedPort, reply |-> reply])
            /\ pc' = after_enhanced_probe(reply).pc
            /\ bridge_url' = after_enhanced_probe(reply).bridge_url
    /\ UNCHANGED <<collectVars, restVars, logVars, nCmds, log_mark, nFaults, gemini_raw, action_data, posts, post_reply,
                   result, sends, http_status, prev_bridge>>

\* lines 169-176: requests.get("http://localhost:5002/health", timeout=5)
ProbeEnhanced(reply) ==
    /\ pc = "probe_enhanced"
    /\ probes' = Append(probes, [port |-> EnhancedPort, reply |-> reply])
    /\ pc' = after_enhanced_probe(reply).pc
    /\ bridge_url' = after_enhanced_probe(reply).bridge_url
    /\ UNCHANGED <<collectVars, restVars, logVars, nCmds, log_mark, nFaults, gemini_raw, action_data, posts, post_reply,
                   result, sends, http_status, prev_bridge>>

\* lines 177-186: requests.get("http://localhost:5001/health", timeout=5)
ProbeSimple(reply) ==
    /\ pc = "probe_simple"
    /\ probes' = Append(probes, [port |-> SimplePort, reply |-> reply])
    /\ pc' = after_simple_probe(reply).pc
    /\ bridge_url' = after_simple_probe(reply).bridge_url
    /\ result' = after_simple_probe(reply).result
    /\ UNCHANGED <<collectVars, restVars, logVars, nCmds, log_mark, nFaults, gemini_raw, action_data, posts, post_reply,
                   sends, http_status, prev_bridge>>

\* perform_cursor_action turning to the simple bridge when the request to
\* the enhanced bridge failed
PostInject_fails_over(reply) ==
    /\ pc = "post"
    /\ posts' = Append(posts, bridge_url)
    /\ post_reply' = reply
    /\ result' = interpret_reply(reply, bridge_url)
    /\ pc' = IF ~interpret_reply(reply, bridge_url).check /\ bridge_url = EnhancedPort
             THEN "probe_simple" ELSE "log_completed"
    /\ UNCHANGED <<collectVars, restVars, logVars, nCmds, log_mark, nFaults, gemini_raw, action_data, probes,
                   bridge_url, sends, http_status, prev_bridge>>

\* lines 188-229: requests.post(bridge_url, json={...}, timeout=60)
PostInject(reply) ==
    /\ pc = "post"
    /\ posts' = Append(posts, bridge_url)
    /\ post_reply' = reply
    /\ result' = interpret_reply(reply, bridge_url)
    /\ pc' = "log_completed"
    /\ UNCHANGED <<collectVars, restVars, logVars, nCmds, log_mark, nFaults, gemini_raw, action_data, probes,
                   bridge_url, sends, http_status, prev_bridge>>

\* lines 682-684
LogCompleted(fault) ==
    /\ pc = "log_completed"
    /\ LogStep("ACTION_PERFORMED", mentions_error(gemini_raw), fault)
    /\ pc' = IF fault THEN "except" ELSE "send"
    /\ UNCHANGED <<collectVars, restVars, nCmds, log_mark, gemini_raw, action_data, probes, posts, post_reply, bridge_url,
                   result, sends, http_status, prev_bridge>>

\* the status line of the summary: SUCCESS when the result holds a check mark
summary_status(res) == IF res.check THEN "SUCCESS" ELSE "FAILED"

\* lines 686-707: compose the summary and hand it to send_sms_response,
\* which returns a string whether or not Twilio accepted the message
SendSummary ==
    /\ pc = "send"
    /\ sends' = Append(sends, [status |-> summary_status(result)])
    /\ pc' = "log_sent"
    /\ UNCHANGED <<collectVars, restVars, logVars, nCmds, log_mark, nFaults, gemini_raw, action_data, probes,
                   posts, post_reply, bridge_url, result, http_status, prev_bridge>>

\* lines 708-713
LogSent(fault) ==
    /\ pc = "log_sent"
    /\ LogStep("SMS_SENT", FALSE, fault)
    /\ pc' = IF fault THEN "except" ELSE "idle"
    /\ http_status' = IF fault THEN 0 ELSE 200
    /\ UNCHANGED <<collectVars, restVars, nCmds, log_mark, gemini_raw, action_data, probes, posts, post_reply, bridge_url,
                   result, sends, prev_bridge>>

\* lines 715-717: the except clause; an exception in its add_log leaves the
\* handler
LogException(fault) ==
    /\ pc = "except"
    /\ LogStep("ERROR", TRUE, fault)
    /\ pc' = IF fault THEN "idle" ELSE "send_error"
    /\ http_status' = IF fault THEN 500 ELSE 0
    /\ UNCHANGED <<collectVars, restVars, nCmds, log_mark, gemini_raw, action_data, probes, posts, post_reply, bridge_url, result,
                   sends, prev_bridge>>

\* lines 719-730
SendErrorSummary ==
    /\ pc = "send_error"
    /\ sends' = Append(sends, [status |-> "SYSTEM ERROR"])
    /\ pc' = "idle"
    /\ http_status' = 200
    /\ UNCHANGED <<collectVars, restVars, logVars, nCmds, log_mark, nFaults, gemini_raw, action_data, probes,
                   posts, post_reply, bridge_url, result, prev_bridge>>

InitCmd ==
    /\ pc = "idle"
    /\ nCmds = 0
    /\ log_mark = 0
    /\ nFaults = 0
    /\ gemini_raw = NoRaw
    /\ action_data = NoAction
    /\ probes = <<>>
    /\ posts = <<>>
    /\ post_reply = NoReply
    /\ bridge_url = NoPort
    /\ result = NoResult
    /\ sends = <<>>
    /\ http_status = 0
    /\ prev_bridge = NoPort

InitRestOn(windows) ==
    /\ last_response = NoResponse
    /\ summary_call = NoSummaryCall
    /\ summary_body = NoBody
    /\ exec_pc = [r \in Requests |-> "idle"]
    /\ exec_bridge = [r \in Requests |-> NoPort]
    /\ exec_steps = [r \in Requests |-> <<>>]
    /\ exec_reply = [r \in Requests |-> NoExecReply]
    /\ exec_window = [r \in Requests |-> NoWindow]
    /\ exec_keys = [r \in Requests |-> <<>>]
    /\ exec_clip = [r \in Requests |-> FALSE]
    /\ surface = <<>>
    /\ desktop = windows
    /\ foreground = 0
    /\ thr_pc = [t \in Threads |-> "idle"]
    /\ thr_op = [t \in Threads |-> "none"]
    /\ thr_evict = [t \in Threads |-> -1]
    /\ thr_seen = [t \in Threads |-> -1]
    /\ gave_up = [r \in Requests |-> -1]

\* a desktop with one Cursor window
InitRest == InitRestOn(<<"cursor">>)

InitCollect ==
    /\ original_message = <<>>
    /\ clipboard = <<>>
    /\ collect_call = NoCall
    /\ collected = NoCollected

Init ==
    /\ activity_logs = <<>>
    /\ max_logs = MAX_LOGS
    /\ nAppended = 0
    /\ InitCmd
    /\ InitCollect
    /\ InitRest

Next ==
    \/ \E fault \in BOOLEAN : Receive(fault)
    \/ \E raw \in PipelineResponses : Classify(raw)
    \/ \E fault \in BOOLEAN : LogProcessed(fault)
    \/ \E reply \in ProbeReplies : ProbeEnhanced(reply)
    \/ \E reply \in ProbeReplies : ProbeSimple(reply)
    \/ \E reply \in PostReplies : PostInject(reply)
    \/ \E fault \in BOOLEAN : LogCompleted(fault)
    \/ SendSummary
    \/ \E fault \in BOOLEAN : LogSent(fault)
    \/ \E fault \in BOOLEAN : LogException(fault)
    \/ SendErrorSummary

Spec == Init /\ [][Next]_vars

\* the classifier adapter and validator on every classifier outcome, up to
\* the entry of the router
NextClassify ==
    \/ \E fault \in BOOLEAN : Receive(fault)
    \/ \E raw \in AllResponses : Classify(raw)
    \/ \E fault \in BOOLEAN : LogProcessed(fault)

SpecClassify == Init /\ [][NextClassify]_vars

\* entries other than an SMS_RECEIVED entry without the word "error"
OtherTypeCount(logs) ==
    Cardinality({i \in 1..Len(logs) :
                    logs[i].type # "SMS_RECEIVED" \/ logs[i].error_word})

\* one call of add_log from any caller, with any log type and message
AddLogCall(log_type, error_word) ==
    /\ nAppended < max_logs + MaxExtraAppends
    /\ (log_type # "SMS_RECEIVED" \/ error_word)
          => OtherTypeCount(activity_logs) < MaxOtherTypes
    /\ activity_logs' = add_log(activity_logs, max_logs,
                                log_entry(nAppended + 1, log_type, error_word))
    /\ nAppended' = nAppended + 1
    /\ last_response' = NoResponse
    /\ UNCHANGED <<max_logs, cmdVars, collectVars, threadVars, sumVars, execVars>>

\* GET /logs
GetLogs ==
    /\ last_response' = get_logs(activity_logs)
    /\ UNCHANGED <<logVars, cmdVars, collectVars, threadVars, sumVars, execVars>>

\* GET /clear_logs
ClearLogs ==
    /\ nAppended < max_logs + MaxExtraAppends
    /\ activity_logs' = clear_logs(max_logs, nAppended + 1)
    /\ nAppended' = nAppended + 1
    /\ last_response' = NoResponse
    /\ UNCHANGED <<max_logs, cmdVars, collectVars, threadVars, sumVars, execVars>>

Capacities == (1..MaxSmallCapacity) \cup {MAX_LOGS}

\* the log type and whether the message holds the word "error"; the stats
\* read the message of ACTION_PERFORMED entries only, so the word is varied
\* there
LogCalls ==
    {<<"SMS_RECEIVED", FALSE>>, <<"SMS_SENT", FALSE>>, <<"ERROR", TRUE>>,
     <<"ACTION_PERFORMED", FALSE>>, <<"ACTION_PERFORMED", TRUE>>}

InitLog ==
    /\ activity_logs = <<>>
    /\ max_logs \in Capacities
    /\ nAppended = 0
    /\ InitCmd
    /\ InitCollect
    /\ InitRest

NextLog ==
    \/ \E call \in LogCalls : AddLogCall(call[1], call[2])
    \/ GetLogs

SpecLog == InitLog /\ [][NextLog]_vars

\* the /inject requests of the two bridges on one of the desktops; the
\* message is longer than the echo of the default acknowledgment, the
\* clipboard is long enough to be returned
InitExecutor ==
    /\ activity_logs = <<>>
    /\ max_logs = MAX_LOGS
    /\ nAppended = 0
    /\ InitCmd
    /\ original_message = Text(MaxMessageLen)
    /\ clipboard = Text(MinClipboardLen + 1)
    /\ collect_call = NoCall
    /\ collected = NoCollected
    /\ \E windows \in Desktops : InitRestOn(windows)

SpecExec == InitExecutor /\ [][NextExec]_vars

\* the summary functions on texts of every length up to the bound
SpecSummary == Init /\ [][NextSummary]_vars

\* the dashboard requests on the log of the application
NextDash ==
    \/ \E call \in LogCalls : AddLogCall(call[1], call[2])
    \/ GetLogs
    \/ ClearLogs

SpecDash == Init /\ [][NextDash]_vars

(***************************************************************************)
(* The router and the executor together: the execute request of a command  *)
(* is served by a thread of the bridge, and the router waits for the reply *)
(* no longer than its timeout.                                             *)
(***************************************************************************)
\* the /inject request that serves the command being processed
cmd_request == nCmds

\* the text of a collected response as the router receives it
reply_text(c) == IF c.kind = "clipboard" THEN c.text ELSE Text(collected_len(c))

\* /inject answering 200 whatever the executor returned
bridge_reply_hides_failure(er) ==
    Http(200, JsonBody("true",
                       IF er.cursor_response = NoCollected
                       THEN Absent
                       ELSE Str(reply_text(er.cursor_response)),
                       FALSE))

\* jsonify(result) with the status of /inject, as requests.post returns it
bridge_reply(er) ==
    IF er.status = 200
    THEN Http(200, JsonBody("true",
                            IF er.cursor_response = NoCollected
                            THEN Absent
                            ELSE Str(reply_text(er.cursor_response)),
                            FALSE))
    ELSE Http(er.status, <<>>)

\* lines 193-201: requests.post reaches the bridge that was selected,
\* whose /inject handler finds the message and calls the executor
PostSend ==
    /\ pc = "post"
    /\ cmd_request \in Requests
    /\ exec_pc[cmd_request] = "idle"
    /\ posts' = Append(posts, bridge_url)
    /\ pc' = "await_post"
    /\ exec_bridge' = [exec_bridge EXCEPT ![cmd_request] = bridge_url]
    /\ exec_pc' = [exec_pc EXCEPT ![cmd_request] = "Locate"]
    /\ UNCHANGED <<logVars, nCmds, log_mark, nFaults, gemini_raw, action_data, probes,
                   post_reply, bridge_url, result, sends, http_status, prev_bridge,
                   collectVars, dashVars, sumVars, exec_steps, exec_reply,
                   exec_window, exec_keys, exec_clip, surface, desktop,
                   foreground, threadVars>>

\* lines 203-222: the bridge answered within the timeout
PostReturn ==
    /\ pc = "await_post"
    /\ exec_pc[cmd_request] = "done"
    /\ post_reply' = bridge_reply(exec_reply[cmd_request])
    /\ result' = interpret_reply(bridge_reply(exec_reply[cmd_request]), bridge_url)
    /\ pc' = "log_completed"
    /\ UNCHANGED <<logVars, nCmds, log_mark, nFaults, gemini_raw, action_data, probes,
                   posts, bridge_url, sends, http_status, prev_bridge,
                   collectVars, restVars>>

\* requests.post closing the bridge's work when it stops waiting
PostTimeout_cancels ==
    /\ pc = "await_post"
    /\ post_reply' = Raised("ReadTimeout")
    /\ result' = interpret_reply(Raised("ReadTimeout"), bridge_url)
    /\ gave_up' = [gave_up EXCEPT ![cmd_request] = Len(exec_steps[cmd_request])]
    /\ exec_pc' = [exec_pc EXCEPT ![cmd_request] = "done"]
    /\ pc' = "log_completed"
    /\ UNCHANGED <<logVars, nCmds, log_mark, nFaults, gemini_raw, action_data, probes,
                   posts, bridge_url, sends, http_status, prev_bridge,
                   collectVars, dashVars, sumVars, exec_bridge, exec_steps,
                   exec_reply, exec_window, exec_keys, exec_clip, surface,
                   desktop, foreground, raceVars>>

\* lines 226-227: timeout=60 passed before the bridge answered; the
\* router returns, the thread of the bridge is not told
PostTimeout ==
    /\ pc = "await_post"
    /\ post_reply' = Raised("ReadTimeout")
    /\ result' = interpret_reply(Raised("ReadTimeout"), bridge_url)
    /\ gave_up' = [gave_up EXCEPT ![cmd_request] = Len(exec_steps[cmd_request])]
    /\ pc' = "log_completed"
    /\ UNCHANGED <<logVars, nCmds, log_mark, nFaults, gemini_raw, action_data, probes,
                   posts, bridge_url, sends, http_status, prev_bridge,
                   collectVars, dashVars, sumVars, execVars, raceVars>>

\* the classifier outcomes and the probe answers the router is run on
\* together with the executor: a valid action and a classifier failure; a
\* bridge that answers the probe, one without the route, and none
DispatchResponses ==
    {RaiseResponse("Exception"),
     TextResponse(<<Obj("open_file", Absent, Str(Text(MaxTextLen)), Absent)>>)}

DispatchProbeReplies ==
    {Http(200, <<>>), Http(404, <<>>), Raised("ConnectionError")}

\* one step of sms_webhook other than the arrival of a command
PipelineStep ==
    \/ \E raw \in DispatchResponses : Classify(raw)
    \/ \E fault \in BOOLEAN : LogProcessed(fault)
    \/ \E reply \in DispatchProbeReplies : ProbeEnhanced(reply)
    \/ \E reply \in DispatchProbeReplies : ProbeSimple(reply)
    \/ PostSend
    \/ PostReturn
    \/ PostTimeout
    \/ \E fault \in BOOLEAN : LogCompleted(fault)
    \/ SendSummary
    \/ \E fault \in BOOLEAN : LogSent(fault)
    \/ \E fault \in BOOLEAN : LogException(fault)
    \/ SendErrorSummary

InitDispatch ==
    /\ activity_logs = <<>>
    /\ max_logs = MAX_LOGS
    /\ nAppended = 0
    /\ InitCmd
    /\ original_message = Text(MaxMessageLen)
    /\ clipboard = Text(MinClipboardLen + 1)
    /\ collect_call = NoCall
    /\ collected = NoCollected
    /\ \E windows \in Desktops : InitRestOn(windows)

\* the first command arrives; the router and the executor are followed on
\* that one command
ReceiveFirst(fault) == nCmds = 0 /\ Receive(fault)

NextDispatch ==
    \/ \E fault \in BOOLEAN : ReceiveFirst(fault)
    \/ PipelineStep
    \/ \E r \in Requests : ExecStep(r)

SpecDispatch == InitDispatch /\ [][NextDispatch]_vars

\* every call that waits has a timeout (5 s for a probe, 60 s for the
\* execute request, 5 s for PowerShell) and every dwell is a finite sleep,
\* so a handler that can take a step takes it, and so does each thread of
\* the bridge
SpecDispatchLive ==
    /\ SpecDispatch
    /\ WF_vars(PipelineStep)
    /\ \A r \in Requests : WF_vars(ExecStep(r))

(***************************************************************************)
(* add_log and clear_logs statement by statement.  The development server  *)
(* serves each request in a thread of its own; add_log reads the global    *)
(* name activity_logs anew in each of its statements and takes no lock.    *)
(***************************************************************************)
\* activity_logs.append(log_entry), by add_log called from a handler
\* (thread idle) or by the add_log call of clear_logs (after the rebind)
ThreadAppend(t, log_type, error_word) ==
    /\ \/ thr_pc[t] = "idle" /\ thr_op' = [thr_op EXCEPT ![t] = "add_log"]
       \/ /\ thr_pc[t] = "rebound"
          /\ log_type = "ACTION_PERFORMED" /\ ~error_word
          /\ UNCHANGED thr_op
    /\ activity_logs' = Append(activity_logs,
                               log_entry(nAppended + 1, log_type, error_word))
    /\ nAppended' = nAppended + 1
    /\ thr_pc' = [thr_pc EXCEPT ![t] = "test"]
    /\ UNCHANGED <<max_logs, cmdVars, collectVars, dashVars, sumVars, execVars,
                   thr_evict, thr_seen, linkVars>>

\* if len(activity_logs) > MAX_LOGS; when it is not, add_log prints and
\* returns
ThreadTest(t) ==
    /\ thr_pc[t] = "test"
    /\ thr_pc' = [thr_pc EXCEPT ![t] =
                     IF Len(activity_logs) > max_logs THEN "pop" ELSE "done"]
    /\ UNCHANGED <<logVars, cmdVars, collectVars, dashVars, sumVars, execVars,
                   thr_op, thr_evict, thr_seen, linkVars>>

\* activity_logs.pop(0), on the list the name is bound to by now: it
\* raises IndexError on an empty list, otherwise it removes the first
\* entry and add_log prints and returns
ThreadPop(t) ==
    /\ thr_pc[t] = "pop"
    /\ thr_evict' = [thr_evict EXCEPT ![t] = Len(activity_logs)]
    /\ IF activity_logs = <<>>
       THEN /\ thr_pc' = [thr_pc EXCEPT ![t] = "raised"]
            /\ UNCHANGED activity_logs
       ELSE /\ thr_pc' = [thr_pc EXCEPT ![t] = "done"]
            /\ activity_logs' = Tail(activity_logs)
    /\ UNCHANGED <<max_logs, nAppended, cmdVars, collectVars, dashVars, sumVars,
                   execVars, thr_op, thr_seen, linkVars>>

\* clear_logs: activity_logs = [] binds the global name to a new list
ThreadRebind(t) ==
    /\ thr_pc[t] = "idle"
    /\ thr_op' = [thr_op EXCEPT ![t] = "clear_logs"]
    /\ thr_pc' = [thr_pc EXCEPT ![t] = "rebound"]
    /\ activity_logs' = <<>>
    /\ UNCHANGED <<max_logs, nAppended, cmdVars, collectVars, dashVars, sumVars,
                   execVars, thr_evict, thr_seen, linkVars>>

\* get_logs, line 611: list(reversed(activity_logs)) copies the list the
\* name is bound to at that moment
ThreadRead(t) ==
    /\ thr_pc[t] = "idle"
    /\ thr_op' = [thr_op EXCEPT ![t] = "get_logs"]
    /\ thr_seen' = [thr_seen EXCEPT ![t] = Len(get_logs(activity_logs).logs)]
    /\ thr_pc' = [thr_pc EXCEPT ![t] = "done"]
    /\ UNCHANGED <<logVars, cmdVars, collectVars, dashVars, sumVars, execVars,
                   thr_evict, linkVars>>

\* the entries the threads append
RaceCalls == {<<"SMS_RECEIVED", FALSE>>, <<"ERROR", TRUE>>,
              <<"ACTION_PERFORMED", FALSE>>}

\* the buffer when the threads start: empty, one below MAX_LOGS, or full
InitRace ==
    /\ \E n \in {0, MAX_LOGS - 1, MAX_LOGS} :
          /\ activity_logs = [i \in 1..n |-> log_entry(i, "SMS_RECEIVED", FALSE)]
          /\ nAppended = n
    /\ max_logs = MAX_LOGS
    /\ InitCmd
    /\ InitCollect
    /\ InitRest

NextRace ==
    \E t \in Threads :
        \/ \E call \in RaceCalls : ThreadAppend(t, call[1], call[2])
        \/ ThreadTest(t)
        \/ ThreadPop(t)
        \/ ThreadRebind(t)
        \/ ThreadRead(t)

SpecRace == InitRace /\ [][NextRace]_vars

\* a clipboard content that ends in a blank and is one character longer
\* than the minimum length
PaddedClipboard == Text(MinClipboardLen) \o <<0>>

\* collect_response on every message and clipboard content up to the bounds
InitCollector ==
    /\ activity_logs = <<>>
    /\ max_logs = MAX_LOGS
    /\ nAppended = 0
    /\ InitCmd
    /\ original_message \in {Text(n) : n \in 0..MaxMessageLen}
    /\ clipboard \in {Text(n) : n \in 0..MaxClipboardLen} \cup {PaddedClipboard}
    /\ collect_call = NoCall
    /\ collected = NoCollected
    /\ InitRest

NextCollect ==
    \E hotkeys_raise \in BOOLEAN, tk \in BOOLEAN, ps \in {"raise", "nonzero", "zero"} :
        CollectResponse(hotkeys_raise, tk, ps)

SpecCollect == InitCollector /\ [][NextCollect]_vars

(***************************************************************************)
(* Activity log claims                                                     *)
(***************************************************************************)
\* C3: after any sequence of add_log calls the buffer of the application
\* (capacity MAX_LOGS = 50) holds at most MAX_LOGS entries.
C3_LogBounded ==
    max_logs = MAX_LOGS => Len(activity_logs) <= MAX_LOGS

C3_Witness ==
    /\ max_logs = MAX_LOGS
    /\ nAppended > MAX_LOGS
    /\ Len(activity_logs) = MAX_LOGS

\* C4: for every capacity N >= 1, after k appends the buffer is exactly the
\* last min(k, N) appended entries in insertion order; so N+1 appends to an
\* empty log leave N entries and the first one inserted is the one removed.
C4_FifoEviction ==
    /\ Len(activity_logs) = Min(nAppended, max_logs)
    /\ \A i \in 1..Len(activity_logs) :
          activity_logs[i].seq = nAppended - Len(activity_logs) + i

C4_Witness ==
    /\ nAppended = max_logs + 1
    /\ Len(activity_logs) = max_logs
    /\ activity_logs[1].seq = 2

(***************************************************************************)
(* Router claims                                                           *)
(***************************************************************************)
Answered200(reply) == reply.t = "http" /\ reply.status = 200

\* C1: in every route call, if the primary bridge (port 5002) answers its
\* health probe with success, the execute request goes to the primary and
\* never to the secondary, whatever the earlier calls did.
C1_PrimaryPreferred ==
    (probes # <<>> /\ probes[1].port = EnhancedPort /\ Answered200(probes[1].reply))
        => /\ Len(probes) = 1
           /\ \/ pc = "post" /\ posts = <<>>
              \/ posts = <<EnhancedPort>>

C1_Witness ==
    /\ nCmds = 2
    /\ prev_bridge = SimplePort
    /\ probes # <<>> /\ Answered200(probes[1].reply)
    /\ posts = <<EnhancedPort>>

AllProbesFailed ==
    /\ Len(probes) = 2
    /\ \A i \in 1..2 : ~Answered200(probes[i].reply)

\* C2: if no bridge answers its health probe with success, the route call
\* returns a no-bridge-available result and sends no execute request.
C2_NoBackendNoExecute ==
    AllProbesFailed
        => /\ posts = <<>>
           /\ pc # "post"
           /\ result.msg \in {"No Cursor Bridge available",
                              "No Cursor Bridge responding"}

C2_Witness ==
    /\ AllProbesFailed
    /\ probes[1].reply.t = "exc" /\ probes[2].reply.t = "http"
    /\ pc = "idle" /\ http_status = 200
    /\ posts = <<>>

C5_ExactlyOneSummary ==
    (pc = "idle" /\ nCmds > 0) => Len(sends) = 1

(***************************************************************************)
(* Validator claims                                                        *)
(***************************************************************************)
\* the JSON value or prose inside a response text, with its fences
BodyOf(raw) == raw.tokens[(Len(raw.tokens) + 1) \div 2]

Malformed(raw) ==
    /\ raw.kind = "text"
    /\ \/ BodyOf(raw).t \in {"prose", "array", "scalar"}
       \/ BodyOf(raw).obj.action = "absent"
       \/ BodyOf(raw).obj.description = Absent

\* C6: for every classifier outcome process_with_gemini returns an Action
\* without raising, and for every malformed payload the Action has kind
\* error.
C6_ValidatorReturnsError ==
    gemini_raw # NoRaw =>
        /\ action_data # NoAction
        /\ action_data.action \in ActionType
        /\ Malformed(gemini_raw) => action_data.action = "error"

NonEmptyStr(field) == field.k = "str" /\ field.s # <<>>

\* C9: every Action of kind create_file the validator produces carries a
\* non-empty file_path.
C9_CreateFileHasPath ==
    action_data.action = "create_file" => NonEmptyStr(action_data.file_path)

InRouter == pc \in {"probe_enhanced", "probe_simple", "post"} \/ probes # <<>>

\* C10: every Action of kind error that reaches the router carries no
\* command and a non-empty description.
C10_ErrorActionShape ==
    (InRouter /\ action_data.action = "error")
        => /\ action_data.command.k = "null"
           /\ NonEmptyStr(action_data.description)

\* a JSON object with a description whose action is outside the enumeration
UnknownKind(raw) ==
    /\ raw.kind = "text"
    /\ BodyOf(raw).t = "object"
    /\ BodyOf(raw).obj.action \notin ActionType \cup {"absent"}
    /\ BodyOf(raw).obj.description.k = "str"

\* C11: a well-formed classifier object whose kind is outside the
\* enumeration is mapped to an Action of kind error.
C11_UnknownKindIsError ==
    (gemini_raw # NoRaw /\ UnknownKind(gemini_raw))
        => action_data.action = "error"

(***************************************************************************)
(* End-to-end claims                                                       *)
(***************************************************************************)
\* the command delivered last has been answered by the handler's return
Answered == pc = "idle" /\ nCmds > 0 /\ http_status = 200

\* the log entries written since the current command arrived
CommandEntries ==
    LET OfCommand(log) == log.seq > log_mark
    IN  SelectSeq(activity_logs, OfCommand)

Unparseable(raw) ==
    raw.kind = "text" /\ ~json_parses(strip_code_fence(raw.tokens))

\* C12: a command whose classifier text does not parse gets an Action of
\* kind error and one summary, and no health probe or execute request is
\* sent for it (stated for the commands whose log calls all return).
C12_UnparseableContactsNoBackend ==
    (Answered /\ Unparseable(gemini_raw) /\ nFaults = 0)
        => /\ action_data.action = "error"
           /\ Len(sends) = 1
           /\ probes = <<>>
           /\ posts = <<>>

\* C13: a command processed while both bridges are down ends with the
\* no-bridge result, a summary marked as failed and exactly one ERROR entry
\* in the log.
C13_BothDownOneErrorEntry ==
    (Answered /\ AllProbesFailed)
        => /\ result.msg \in {"No Cursor Bridge available",
                              "No Cursor Bridge responding"}
           /\ posts = <<>>
           /\ Len(sends) = 1
           /\ sends[1].status \in {"FAILED", "SYSTEM ERROR"}
           /\ Len(SelectSeq(CommandEntries, IsError)) = 1

\* C14: a command that is classified and dispatched with success adds
\* exactly three entries to the log: the inbound one, the dispatch and the
\* outcome, in that order.
C14_SuccessAddsThreeEntries ==
    (Answered /\ posts # <<>> /\ result.check /\ nAppended <= max_logs)
        => /\ Len(CommandEntries) = 3
           /\ CommandEntries[1].type = "SMS_RECEIVED"
           /\ CommandEntries[2].type = "ACTION_PERFORMED"
           /\ CommandEntries[3].type \in {"ACTION_PERFORMED", "SMS_SENT"}

\* one of the stages classification, health probe and dispatch failed
StageFailed ==
    \/ gemini_raw # NoRaw /\ gemini_raises(gemini_raw)
    \/ \E i \in 1..Len(probes) : ~Answered200(probes[i].reply)
    \/ posts # <<>> /\ ~result.check

\* C18: the handler answers a command whose pipeline failed at a stage
\* with a normal response.
C18_FailedCommandAnswered ==
    (pc = "idle" /\ nCmds > 0 /\ StageFailed) => http_status = 200

\* C19: every body handed to the transport is at most 1600 characters
\* long, whatever the lengths of the request, the description and the
\* result.
C19_SummaryWithinLimit ==
    summary_body.sent => summary_body.len <= SmsLimit

(***************************************************************************)
(* Dashboard claims                                                        *)
(***************************************************************************)
\* C15: the list of GET /logs is the buffer most recent first: entry i of
\* the list is entry i from the end of the buffer, which is the i-th most
\* recently appended entry, none missing and none twice.
C15_ListMostRecentFirst ==
    last_response.kind = "logs" =>
        LET listed == last_response.logs
        IN  /\ Len(listed) = Len(activity_logs)
            /\ \A i \in 1..Len(listed) :
                  /\ listed[i] = activity_logs[Len(activity_logs) - i + 1]
                  /\ listed[i].seq = nAppended - i + 1

C15_Witness ==
    /\ last_response.kind = "logs"
    /\ max_logs = MAX_LOGS
    /\ nAppended > MAX_LOGS
    /\ Len(last_response.logs) = MAX_LOGS
    /\ last_response.logs[1].seq = nAppended
    /\ last_response.logs[MAX_LOGS].seq = nAppended - MAX_LOGS + 1

\* C16: each count of GET /logs is the number of entries of its kind now
\* in the buffer, so entries that were evicted are not counted, and the
\* request leaves the buffer as the appends made it.
C16_StatsScanBuffer ==
    last_response.kind = "logs" =>
        LET stats == last_response.stats
        IN  /\ stats.total_messages = Len(SelectSeq(activity_logs, IsMessage))
            /\ stats.successful_actions =
                  Len(SelectSeq(activity_logs, IsSuccessfulAction))
            /\ stats.errors = Len(SelectSeq(activity_logs, IsError))
            /\ stats.total_messages + stats.errors <= Len(activity_logs)
            /\ Len(activity_logs) = Min(nAppended, max_logs)
            /\ \A i \in 1..Len(activity_logs) :
                  activity_logs[i].seq = nAppended - Len(activity_logs) + i

C16_Witness ==
    /\ last_response.kind = "logs"
    /\ max_logs = MAX_LOGS
    /\ nAppended > max_logs
    /\ \E i \in 1..Len(activity_logs) :
          activity_logs[i].type = "ACTION_PERFORMED" /\ activity_logs[i].error_word
    /\ last_response.stats.successful_actions = 0
    /\ last_response.stats.total_messages = max_logs

AppendStep ==
    /\ activity_logs' # <<>>
    /\ activity_logs' = add_log(activity_logs, max_logs,
                                activity_logs'[Len(activity_logs')])
    /\ activity_logs'[Len(activity_logs')].seq = nAppended'

ClearStep ==
    activity_logs' = <<log_entry(nAppended', "ACTION_PERFORMED", FALSE)>>

C24_EvictOnlyAboveCapacity ==
    \A t \in Threads :
        thr_evict[t] # -1 => thr_evict[t] # 0 /\ thr_evict[t] > max_logs

\* C25: within one call of the router at most one execute request is sent,
\* to the backend that was selected; once it is sent (whether it ends in a
\* refused connection, a timeout or a rejection) the router neither probes
\* nor posts again, and a request sent to the primary backend leaves the
\* secondary one unprobed.
C25_AtMostOneExecute ==
    /\ Len(posts) <= 1
    /\ posts # <<>> =>
          /\ posts[1] = bridge_url
          /\ bridge_url \in {EnhancedPort, SimplePort}
          /\ pc \notin {"probe_enhanced", "probe_simple", "post"}
          /\ posts[1] = EnhancedPort => Len(probes) = 1
          /\ posts[1] = SimplePort => Len(probes) = 2

C25_Witness ==
    /\ Answered
    /\ posts = <<EnhancedPort>>
    /\ post_reply \in {Raised("ConnectionError"), Raised("ReadTimeout"),
                        Http(500, <<>>)}
    /\ ~result.check
    /\ Len(probes) = 1

\* C26: when the primary backend fails its health probe and the simple
\* bridge of the repository runs on port 5001 and answers the probe, the
\* router selects the simple bridge and sends the execute request to it.
SecondaryAnswered ==
    /\ Len(probes) = 2
    /\ ~health_ok(probes[1].reply)
    /\ probes[2] = [port |-> SimplePort, reply |-> health_reply(SimplePort)]

C26_FailoverToSecondary ==
    SecondaryAnswered =>
        /\ bridge_url = SimplePort
        /\ Answered => posts = <<SimplePort>>

\* C31: the health of the backends is never cached: in every route call
\* the primary is probed first and the secondary after it, nothing is
\* selected or posted before a probe of that call, and the backend selected
\* is a function of the health replies of that call alone, whatever the
\* earlier calls did.
SelectedBy(replies) ==
    IF Answered200(replies[1].reply) THEN EnhancedPort
    ELSE IF Len(replies) = 2 /\ Answered200(replies[2].reply) THEN SimplePort
    ELSE NoPort

C31_HealthNotCached ==
    /\ probes = <<>> => bridge_url = NoPort /\ posts = <<>>
    /\ probes # <<>> =>
          /\ Len(probes) <= 2
          /\ probes[1].port = EnhancedPort
          /\ Len(probes) = 2 => probes[2].port = SimplePort
          /\ bridge_url = SelectedBy(probes)

C31_Witness ==
    /\ nCmds = 2
    /\ prev_bridge = EnhancedPort
    /\ Len(probes) = 2
    /\ probes[1].reply = Raised("ConnectionError")
    /\ bridge_url = SimplePort
    /\ posts = <<SimplePort>>

(***************************************************************************)
(* Executor claims                                                         *)
(***************************************************************************)
\* C20: in every execution the steps run so far are in the order Locate,
\* Focus, OpenInputSurface, Clear, Inject, Submit, AwaitReply, Collect,
\* each at most once and none after a later one; send_to_cursor runs them
\* without a gap.
C20_StepsInOrder ==
    \A r \in Requests :
        LET steps == exec_steps[r]
        IN  /\ \A i \in 1..Len(steps) : \A j \in 1..Len(steps) :
                  i < j => StepIndex(StepOrder, steps[i])
                             < StepIndex(StepOrder, steps[j])
            /\ exec_bridge[r] = EnhancedPort
                  => steps = SubSeq(StepOrder, 1, Len(steps))

C20_Witness ==
    \E r \in Requests :
        /\ exec_bridge[r] = EnhancedPort
        /\ exec_pc[r] = "done"
        /\ exec_steps[r] = StepOrder
        /\ exec_reply[r].status = 200
        /\ exec_reply[r].cursor_response.kind = "clipboard"

\* C21: when Locate enumerates the visible windows and none holds the
\* marker in its title, the executor ends failed with the reason that the
\* window was not found, has sent no key at all to the desktop (no chat
\* hotkey, select-all, delete, typed text or enter) and has not touched the
\* clipboard.
C21_TargetNotFound(r) ==
    /\ exec_steps[r] # <<>>
    /\ exec_window[r].enumerated
    /\ exec_window[r].chosen = 0

C21_NoWindowNoKeystroke ==
    \A r \in Requests :
        C21_TargetNotFound(r) =>
            /\ exec_pc[r] = "done"
            /\ exec_steps[r] = <<"Locate">>
            /\ exec_reply[r] = ExecReply(500, FALSE,
                                         activation_error(exec_bridge[r]), NoCollected)
            /\ exec_keys[r] = <<>>
            /\ \A i \in 1..Len(surface) : surface[i].r # r
            /\ ~exec_clip[r]

C21_Witness ==
    \E r \in Requests :
        /\ C21_TargetNotFound(r)
        /\ exec_bridge[r] = EnhancedPort
        /\ exec_reply[r].error = "Cursor window not found"
        /\ \E q \in Requests : exec_keys[q] # <<>>

\* C22: when a step of the executor fails, no later step runs, no step
\* runs twice, the executor is done with a failed result, and the reason of
\* that result tells which step failed: two executions of one bridge that
\* failed with the same reason failed at the same step.
StepFailed(r) == exec_pc[r] = "done" /\ exec_reply[r].status = 500

FailedStep(r) == exec_steps[r][Len(exec_steps[r])]

C22_FailureStopsTagged ==
    \A r \in Requests :
        StepFailed(r) =>
            /\ ~exec_reply[r].success
            /\ exec_steps[r] = SubSeq(steps_of(exec_bridge[r]), 1, Len(exec_steps[r]))
            /\ \A q \in Requests :
                  (/\ StepFailed(q)
                   /\ exec_bridge[q] = exec_bridge[r]
                   /\ exec_reply[q].error = exec_reply[r].error)
                      => FailedStep(q) = FailedStep(r)

\* C23: the section from Locate through Collect is not mutually
\* exclusive: a request inside the section can always run its next step,
\* whatever step the other requests are at.  Hence two requests are inside
\* the section at once, and the desktop receives keys of one request between
\* the Clear, Inject and Submit keys of the other.
InSection(r) == exec_pc[r] \notin {"idle", "done"}

C23_SectionNotExclusive ==
    \A r \in Requests : InSection(r) => ENABLED ExecStep(r)

\* keys of request b lie between keys that request a sent from Clear
\* through Submit
Interleaved(a, b) ==
    \E i \in 1..Len(surface), j \in 1..Len(surface), k \in 1..Len(surface) :
        /\ i < j /\ j < k
        /\ surface[i].r = a /\ surface[i].step \in {"Clear", "Inject"}
        /\ surface[j].r = b
        /\ surface[k].r = a /\ surface[k].step \in {"Inject", "Submit"}

C23_Witness ==
    \E a \in Requests, b \in Requests :
        /\ a # b
        /\ exec_bridge[a] = EnhancedPort /\ exec_bridge[b] = EnhancedPort
        /\ InSection(a) /\ InSection(b)
        /\ Interleaved(a, b)

(***************************************************************************)
(* Router and executor claims                                              *)
(***************************************************************************)
\* C27: when the router stops waiting for the execute request, the outcome
\* of the command is the timeout, and the automation of the bridge is not
\* cancelled: the request can still run each of its remaining steps, and
\* when it is done it is so because the executor returned a result.
TimedOut(r) == gave_up[r] # -1

C27_TimeoutDoesNotCancel ==
    \A r \in Requests :
        TimedOut(r) =>
            /\ r = cmd_request =>
                  /\ post_reply = Raised("ReadTimeout")
                  /\ result.msg = "Timeout connecting to Cursor Bridge"
                  /\ ~result.check
            /\ InSection(r) => ENABLED ExecStep(r)
            /\ exec_pc[r] = "done" =>
                  /\ exec_reply[r] # NoExecReply
                  /\ exec_reply[r].success => exec_steps[r] = steps_of(exec_bridge[r])

C27_Witness ==
    \E r \in Requests :
        /\ TimedOut(r)
        /\ gave_up[r] < Len(StepOrder) - 1
        /\ Answered
        /\ sends = <<[status |-> "FAILED"]>>
        /\ exec_bridge[r] = EnhancedPort
        /\ exec_pc[r] = "done"
        /\ exec_steps[r] = StepOrder
        /\ exec_reply[r].success

\* C28: every execute call that entered the executor reaches a terminal
\* state, which is exactly one of completed (with the collected text, on
\* the bridge that collects) and failed (with a reason), and every command
\* that entered the pipeline leaves it: the handler returns.
Completed(r) ==
    /\ exec_reply[r].success /\ exec_reply[r].status = 200
    /\ exec_reply[r].error = "none"
    /\ exec_bridge[r] = EnhancedPort => collected_len(exec_reply[r].cursor_response) > 0

Failed(r) ==
    /\ ~exec_reply[r].success /\ exec_reply[r].status = 500
    /\ exec_reply[r].error # "none"
    /\ exec_reply[r].cursor_response = NoCollected

SubmitCompleted(r) ==
    /\ exec_bridge[r] = EnhancedPort
    /\ Len(exec_steps[r]) >= StepIndex(StepOrder, "Submit")
    /\ ~(exec_pc[r] = "done" /\ FailedStep(r) = "Submit")

Canned(r) ==
    exec_reply[r].cursor_response.kind \in {"Cursor processed", "Message sent to Cursor"}

C29_CollectNeverFailsDispatch ==
    \A r \in Requests :
        SubmitCompleted(r) =>
            /\ exec_pc[r] = "done" =>
                  /\ exec_reply[r].success /\ exec_reply[r].status = 200
                  /\ collected_len(exec_reply[r].cursor_response) > 0
            /\ (r = cmd_request /\ post_reply.t = "http") =>
                  /\ result.check
                  /\ result.bridge = EnhancedPort

C29_Witness ==
    \E r \in Requests :
        /\ SubmitCompleted(r)
        /\ exec_pc[r] = "done"
        /\ exec_reply[r].cursor_response.kind = "Message sent to Cursor"
        /\ ~exec_clip[r]
        /\ Answered
        /\ post_reply = bridge_reply(exec_reply[r])
        /\ result.check
        /\ sends = <<[status |-> "SUCCESS"]>>

(***************************************************************************)
(* Collector claims                                                        *)
(***************************************************************************)
\* C7: collect_response always returns a non-empty string: for an empty
\* clipboard, for a clipboard read that fails and for an exception raised
\* while selecting or copying.
C7_CollectNonEmpty ==
    collected # NoCollected =>
        /\ collected.kind \in {"clipboard", "Cursor processed",
                               "Message sent to Cursor"}
        /\ collected_len(collected) > 0

C7_Witness ==
    /\ collected # NoCollected
    /\ clipboard = <<>>
    /\ ~collect_call.hotkeys_raise
    /\ ~collect_call.tk /\ collect_call.ps = "zero"
    /\ collected.kind = "Cursor processed"
    /\ collected_len(collected) > 0

\* C30: collect_response returns the trailing slice of the clipboard
\* content it read, at most 200 characters long, exactly when that content
\* is non-empty and longer than 20 characters; for a content of 20
\* characters or fewer it returns the default acknowledgment, which quotes
\* at most the first 30 characters of the original instruction.  The
\* content is the text get_clipboard_content returned; when selecting or
\* copying raised, no content was read and the acknowledgment of the except
\* clause is returned, which quotes the same characters.
ClipboardRead ==
    get_clipboard_content(clipboard, collect_call.tk, collect_call.ps)

C30_TailAboveMinimum ==
    collected # NoCollected =>
        LET n == Len(ClipboardRead)
            m == Len(original_message)
            k == Len(collected.text)
        IN  /\ collected.kind = "clipboard" <=> (~collect_call.hotkeys_raise /\ n > 20)
            /\ collected.kind = "clipboard" =>
                  /\ k = IF n > 200 THEN 200 ELSE n
                  /\ collected.text = SubSeq(ClipboardRead, n - k + 1, n)
            /\ collected.kind # "clipboard" =>
                  /\ collected.kind = IF collect_call.hotkeys_raise
                                      THEN "Message sent to Cursor"
                                      ELSE "Cursor processed"
                  /\ k = IF m > 30 THEN 30 ELSE m
                  /\ collected.text = SubSeq(original_message, 1, k)

C30_Witness ==
    /\ collected.kind = "clipboard"
    /\ ~collect_call.hotkeys_raise /\ collect_call.tk
    /\ Len(clipboard) = 201
    /\ Len(collected.text) = 200
    /\ collected.text[1] = 2

\* ---- C32 ----
\* request q brought the window it chose to the foreground
Focused(q) ==
    \E i \in 1..Len(exec_steps[q]) :
        /\ exec_steps[q][i] = "Focus"
        /\ exec_pc[q] # "done" \/ i < Len(exec_steps[q])

\* the window request r chose is the first one of the enumeration whose
\* title holds the marker of its bridge
ChoseFirstMatch(r) ==
    LET chosen == exec_window[r].chosen IN
    /\ chosen # 0 => /\ chosen \in 1..Len(desktop)
                     /\ title_matches(exec_bridge[r], desktop[chosen])
    /\ \A i \in 1..Len(desktop) :
          title_matches(exec_bridge[r], desktop[i]) => chosen # 0 /\ chosen <= i

\* C32 as stated: Locate picks the first window enumerated that matches,
\* and every key a request sends after Focus reaches the window that the
\* request chose.
C32_ActsOnChosenWindowOnly ==
    /\ \A r \in Requests : exec_window[r].enumerated => ChoseFirstMatch(r)
    /\ \A i \in 1..Len(surface) :
          surface[i].target = exec_window[surface[i].r].chosen

\* C32 amended: Locate picks the first window enumerated that matches and
\* Focus brings that window to the foreground; the later steps send their
\* keys to whichever window holds the foreground, which is the window
\* chosen by the request that focused last: the request's own window
\* unless a request that chose a different window focused as well.
C32_FirstMatchThenForeground ==
    /\ \A r \in Requests : exec_window[r].enumerated => ChoseFirstMatch(r)
    /\ foreground # 0 =>
          \E q \in Requests : Focused(q) /\ foreground = exec_window[q].chosen
    /\ \A i \in 1..Len(surface) :
          /\ \E q \in Requests :
                Focused(q) /\ surface[i].target = exec_window[q].chosen
          /\ (\A q \in Requests :
                 Focused(q) => exec_window[q].chosen = exec_window[surface[i].r].chosen)
             => surface[i].target = exec_window[surface[i].r].chosen

\* two visible windows match the markers of the simple bridge, the second
\* and the third of the enumeration: a request chose the second one and
\* completed with its keys sent to it
C32_Witness ==
    /\ desktop = <<"hidden cursor", "code", "cursor">>
    /\ \E r \in Requests :
          /\ exec_bridge[r] = SimplePort
          /\ exec_window[r].chosen = 2
          /\ exec_pc[r] = "done" /\ exec_reply[r].success
          /\ \E i \in 1..Len(surface) :
                surface[i].r = r /\ surface[i].step = "Inject" /\ surface[i].target = 2

\* ---- C33 ----
\* the executor that serves the command returned failed
ExecutorFailed ==
    /\ cmd_request \in Requests
    /\ exec_pc[cmd_request] = "done"
    /\ ~exec_reply[cmd_request].success

\* C33: a failure of the automation propagates end to end: when the
\* executor returned failed, the reply of the bridge to the execute request
\* carries a status other than 200, the outcome of the router is a failed
\* one, and the summary of the command is tagged FAILED, never SUCCESS.
C33_FailurePropagates ==
    ExecutorFailed =>
        /\ exec_reply[cmd_request].status # 200
        /\ post_reply.t = "http" => post_reply.status # 200
        /\ pc \in {"log_completed", "send", "log_sent"} => ~result.check
        /\ \A i \in 1..Len(sends) : sends[i].status # "SUCCESS"
        /\ pc = "log_sent" => sends = <<[status |-> "FAILED"]>>

\* no window matched, the bridge answered 500 within the timeout and the
\* summary went out tagged FAILED
C33_Witness ==
    /\ ExecutorFailed
    /\ C21_TargetNotFound(cmd_request)
    /\ post_reply = Http(500, <<>>)
    /\ result.msg = "failed (status)"
    /\ pc = "log_sent"
    /\ sends = <<[status |-> "FAILED"]>>

\* ---- C34 ----
\* the execute request of the command was answered with success
DispatchSucceeded ==
    /\ post_reply.t = "http" /\ post_reply.status = 200
    /\ post_reply.body.json
    /\ post_reply.body.success \in {"absent", "true"}

\* the summary composed for the command at lines 686-704
Tagged(status) == \E i \in 1..Len(sends) : sends[i].status = status

\* C34: the summary of a command is tagged SUCCESS exactly when the
\* dispatch of that command succeeded; a command whose Action is of kind
\* error, or for which no backend was selected, is never tagged SUCCESS.
C34_SuccessIffDispatchSucceeded ==
    /\ Tagged("SUCCESS") => DispatchSucceeded
    /\ Tagged("FAILED") => ~DispatchSucceeded
    /\ Tagged("SUCCESS") => action_data.action # "error" /\ bridge_url # NoPort

\* ---- C35 ----
\* C35: with handlers running concurrently, a GET /logs never returns more
\* than MAX_LOGS entries, however its read falls between the append and
\* the eviction of the add_log calls of other threads.
C35_ReaderWithinCapacity ==
    \A t \in Threads : thr_seen[t] <= max_logs

\* ---- C36 ----
\* request r was answered with the client-error reply of /inject
Rejected(r) == exec_reply[r].status = 400

\* a request in that state never entered the executor: no step was run,
\* no key was sent for it and none can be
NeverStarted(r) ==
    /\ exec_pc[r] = "done"
    /\ ~exec_reply[r].success /\ exec_reply[r].error = "No message provided"
    /\ exec_steps[r] = <<>>
    /\ exec_keys[r] = <<>>
    /\ ~exec_clip[r]
    /\ ~exec_window[r].enumerated
    /\ \A i \in 1..Len(surface) : surface[i].r # r

====
